---- MODULE Spec2Model ----
(***************************************************************************)
(* VersaNES controller / APU test programs (src/src/main.c).               *)
(*                                                                         *)
(* main.c holds two programs.  Lines 1-208 are the keyboard controller     *)
(* test (build 1); lines 209-475 are the controller and APU test (build 2),*)
(* which adds the square-wave audio callback.  The variable `build` says   *)
(* which of the two is running.                                            *)
(*                                                                         *)
(* Fixed-point conventions for the doubles of the audio callback:          *)
(*   frequency  is held in units of 1/FreqScale Hz,                        *)
(*   phase      is held in units of 1/PhaseOne of a cycle, where           *)
(*              PhaseOne = SAMPLE_RATE * FreqScale stands for 1.0, so that *)
(*              phaseInc = frequency / SAMPLE_RATE is the integer          *)
(*              `frequency` in phase units.                                *)
(***************************************************************************)
EXTENDS Integers, Sequences, FiniteSets, TLC

VARIABLES
    build,            \* 1: keyboard controller test, 2: controller and APU test
    pcMain,           \* position of main()
    running,          \* bool running (main)
    e,                \* SDL_Event e (main): the event last returned by SDL_PollEvent
    keyState1,        \* bool keyState1[NUM_KEYS]
    keyState2,        \* bool keyState2[NUM_KEYS]
    controller1Keys,  \* KeyMapping controller1Keys[]
    controller2Keys,  \* KeyMapping controller2Keys[]
    value1,           \* uint8_t value1 (main)
    value2,           \* uint8_t value2 (main)
    shown,            \* what renderDetailedInfo last drew
    messages,         \* number of message boxes shown
    exitCode,         \* return value of main, -1 while it runs
    lastPress,        \* history: for each key, was its most recent transition a press
    audioOpen,        \* the audio device is open and unpaused
    pcAudio,          \* position of squareWaveCallback
    bufferLen,        \* len, in bytes, the backend asks for on every callback
    numSamples,       \* int numSamples (callback)
    i,                \* int i (callback loop index)
    frequency,        \* double frequency (callback)
    phaseInc,         \* double phaseInc (callback)
    scaledAmplitude,  \* int16_t scaledAmplitude (callback)
    sample,           \* buffer[i-1], the sample written last
    phase,            \* static double phase
    waveTimer,        \* static uint32_t waveTimer, as two 16-bit halves
    semitoneStep,     \* static int semitoneStep
    volumeLevel,      \* static int volumeLevel
    callbacks         \* history: number of completed callback invocations

mainVars == <<build, pcMain, running, e, keyState1, keyState2, controller1Keys,
              controller2Keys, value1, value2, shown, messages, exitCode,
              lastPress, audioOpen>>
audioVars == <<pcAudio, bufferLen, numSamples, i, frequency, phaseInc,
               scaledAmplitude, sample, phase, waveTimer, semitoneStep,
               volumeLevel, callbacks>>
vars == <<mainVars, audioVars>>

(***************************************************************************)
(* Program constants                                                       *)
(***************************************************************************)
NUM_KEYS == 8
SAMPLE_RATE == 44100
BASE_FREQUENCY == 440
MAX_SEMITONE_STEPS == 16
AMPLITUDE == 28000
AudioSpecSamples == 2048

(***************************************************************************)
(* Bounds of the model                                                     *)
(***************************************************************************)
MaxCallbacks == 17

Idx == 0 .. (NUM_KEYS - 1)

(***************************************************************************)
(* Binding tables                                                          *)
(***************************************************************************)
KeyMapping(k, v, l) == [key |-> k, value |-> v, label |-> l]

Table(seq) == [n \in Idx |-> seq[n + 1]]

\* B typed with A's flag value: 1 appears twice and 2 never
Controller1TableDupFlag ==
    Table(<< KeyMapping("SDLK_LALT",    1, "A"),
             KeyMapping("SDLK_LCTRL",   1, "B"),
             KeyMapping("SDLK_5",       4, "Select"),
             KeyMapping("SDLK_1",       8, "Start"),
             KeyMapping("SDLK_UP",     16, "Up"),
             KeyMapping("SDLK_DOWN",   32, "Down"),
             KeyMapping("SDLK_LEFT",   64, "Left"),
             KeyMapping("SDLK_RIGHT", 128, "Right") >>)

Controller1Table ==
    Table(<< KeyMapping("SDLK_LALT",    1, "A"),
             KeyMapping("SDLK_LCTRL",   2, "B"),
             KeyMapping("SDLK_5",       4, "Select"),
             KeyMapping("SDLK_1",       8, "Start"),
             KeyMapping("SDLK_UP",     16, "Up"),
             KeyMapping("SDLK_DOWN",   32, "Down"),
             KeyMapping("SDLK_LEFT",   64, "Left"),
             KeyMapping("SDLK_RIGHT", 128, "Right") >>)

\* controller2Keys of the keyboard controller test (build 1)
Controller2TableInputTest ==
    Table(<< KeyMapping("SDLK_s",   1, "A"),
             KeyMapping("SDLK_a",   2, "B"),
             KeyMapping("SDLK_5",   4, "Select"),
             KeyMapping("SDLK_1",   8, "Start"),
             KeyMapping("SDLK_r",  16, "Up"),
             KeyMapping("SDLK_f",  32, "Down"),
             KeyMapping("SDLK_d",  64, "Left"),
             KeyMapping("SDLK_g", 128, "Right") >>)

\* controller2Keys of the controller and APU test (build 2)
Controller2TableApuTest ==
    Table(<< KeyMapping("SDLK_s",   1, "A"),
             KeyMapping("SDLK_a",   2, "B"),
             KeyMapping("SDLK_6",   4, "Select"),
             KeyMapping("SDLK_2",   8, "Start"),
             KeyMapping("SDLK_r",  16, "Up"),
             KeyMapping("SDLK_f",  32, "Down"),
             KeyMapping("SDLK_d",  64, "Left"),
             KeyMapping("SDLK_g", 128, "Right") >>)

Controller2Table(b) ==
    IF b = 1 THEN Controller2TableInputTest ELSE Controller2TableApuTest

\* every key code the model knows
KeyCodes ==
    {"SDLK_LALT", "SDLK_LCTRL", "SDLK_5", "SDLK_1", "SDLK_UP", "SDLK_DOWN",
     "SDLK_LEFT", "SDLK_RIGHT", "SDLK_s", "SDLK_a", "SDLK_6", "SDLK_2",
     "SDLK_r", "SDLK_f", "SDLK_d", "SDLK_g", "SDLK_ESCAPE"}

\* the key codes the event source of Spec delivers
EventKeys ==
    {"SDLK_LALT", "SDLK_UP", "SDLK_5", "SDLK_s", "SDLK_6", "SDLK_ESCAPE"}

NoEvent == [type |-> "NONE", sym |-> "NONE"]

Events ==
    {[type |-> "SDL_QUIT", sym |-> "NONE"],
     [type |-> "SDL_MOUSEMOTION", sym |-> "NONE"]}
    \cup [type : {"SDL_KEYDOWN", "SDL_KEYUP"}, sym : EventKeys]

AllReleased == [n \in Idx |-> FALSE]

(***************************************************************************)
(* Bit arithmetic on uint8_t                                               *)
(***************************************************************************)
RECURSIVE BitOr(_, _)
BitOr(a, b) ==
    IF a = 0 THEN b
    ELSE IF b = 0 THEN a
    ELSE (IF a % 2 = 1 \/ b % 2 = 1 THEN 1 ELSE 0) + 2 * BitOr(a \div 2, b \div 2)

RECURSIVE BitAnd(_, _)
BitAnd(a, b) ==
    IF a = 0 \/ b = 0 THEN 0
    ELSE (IF a % 2 = 1 /\ b % 2 = 1 THEN 1 ELSE 0) + 2 * BitAnd(a \div 2, b \div 2)

Uint8(x) == x % 256

(***************************************************************************)
(* Input state encoder                                                     *)
(***************************************************************************)
\* one pass of the loop of setKeyState; ks = [k1 |-> keyState1, k2 |-> keyState2]
RECURSIVE SetKeyStateLoop(_, _, _, _)
SetKeyStateLoop(code, pressed, n, ks) ==
    IF n >= NUM_KEYS THEN ks
    ELSE LET a == IF controller1Keys[n].key = code
                  THEN [ks.k1 EXCEPT ![n] = pressed] ELSE ks.k1
             b == IF controller2Keys[n].key = code
                  THEN [ks.k2 EXCEPT ![n] = pressed] ELSE ks.k2
         IN  SetKeyStateLoop(code, pressed, n + 1, [k1 |-> a, k2 |-> b])

\* a controller-2 test that reads controller 1's table (copy-paste slip)
SetKeyStateSameTable(code, pressed) ==
    LET hit == {n \in Idx : controller1Keys[n].key = code}
    IN  [k1 |-> [n \in Idx |-> IF n \in hit THEN pressed ELSE keyState1[n]],
         k2 |-> [n \in Idx |-> IF n \in hit THEN pressed ELSE keyState2[n]]]

\* the second test chained with `else`: at most one controller updates
SetKeyStateExclusive(code, pressed) ==
    LET hit1 == {n \in Idx : controller1Keys[n].key = code}
        hit2 == {n \in Idx : controller2Keys[n].key = code /\ n \notin hit1}
    IN  [k1 |-> [n \in Idx |-> IF n \in hit1 THEN pressed ELSE keyState1[n]],
         k2 |-> [n \in Idx |-> IF n \in hit2 THEN pressed ELSE keyState2[n]]]

\* a lookup that falls back to entry 0 when the key is not found
SetKeyStateDefaultZero(code, pressed) ==
    LET hit1 == {n \in Idx : controller1Keys[n].key = code}
        hit2 == {n \in Idx : controller2Keys[n].key = code}
        at1  == IF hit1 = {} THEN {0} ELSE hit1
        at2  == IF hit2 = {} THEN {0} ELSE hit2
    IN  [k1 |-> [n \in Idx |-> IF n \in at1 THEN pressed ELSE keyState1[n]],
         k2 |-> [n \in Idx |-> IF n \in at2 THEN pressed ELSE keyState2[n]]]

\* a release that is dropped: only presses are recorded
SetKeyStatePressOnly(code, pressed) ==
    SetKeyStateLoop(code, TRUE, 0, [k1 |-> keyState1, k2 |-> keyState2])

setKeyState(code, pressed) ==
    SetKeyStateLoop(code, pressed, 0, [k1 |-> keyState1, k2 |-> keyState2])

\* the loop of getControllerState, visiting the bindings in `order`
RECURSIVE GetControllerStateLoop(_, _, _, _, _)
GetControllerStateLoop(keyState, keyMap, order, n, state) ==
    IF n > Len(order) THEN state
    ELSE GetControllerStateLoop(keyState, keyMap, order, n + 1,
             IF keyState[order[n]]
             THEN Uint8(BitOr(state, keyMap[order[n]].value))
             ELSE state)

IndexOrder == [n \in 1 .. NUM_KEYS |-> n - 1]

\* `state = value` instead of `state |= value`
GetControllerStateAssign(keyState, keyMap) ==
    LET on == {n \in Idx : keyState[n]}
    IN  IF on = {} THEN 0
        ELSE keyMap[CHOOSE n \in on : \A m \in on : m <= n].value

getControllerState(keyState, keyMap) ==
    GetControllerStateLoop(keyState, keyMap, IndexOrder, 1, 0)

(***************************************************************************)
(* Pitch ladder: BASE_FREQUENCY * pow(2.0, semitoneStep / 12.0)            *)
(***************************************************************************)
FreqScale == 100
PowScale == 1000000
PhaseOne == SAMPLE_RATE * FreqScale

\* pow(2.0, n / 12.0) for n in 0..11, in units of 1/PowScale
Root12 ==
    << 1000000, 1059463, 1122462, 1189207, 1259921, 1334840,
       1414214, 1498307, 1587401, 1681793, 1781797, 1887749 >>

RECURSIVE Pow2Int(_)
Pow2Int(n) == IF n <= 0 THEN 1 ELSE 2 * Pow2Int(n - 1)

\* pow(2.0, twelfths / 12.0), in units of 1/PowScale
Pow2Twelfths(twelfths) == Pow2Int(twelfths \div 12) * Root12[(twelfths % 12) + 1]

\* `semitoneStep / 12` evaluated as an integer division
CalcFrequencyIntDiv(step) ==
    (BASE_FREQUENCY * Pow2Twelfths(12 * (step \div 12))) \div (PowScale \div FreqScale)

\* the frequency for a pitch step, in units of 1/FreqScale Hz
CalcFrequency(step) ==
    (BASE_FREQUENCY * Pow2Twelfths(step)) \div (PowScale \div FreqScale)

(***************************************************************************)
(* main(): initialisation, frame loop, cleanup                             *)
(***************************************************************************)
\* a text the current frame has not drawn
NotDrawn == -1

NoDisplay ==
    [raw1 |-> 0, raw2 |-> 0, bin1 |-> <<>>, bin2 |-> <<>>,
     pressed1 |-> AllReleased, pressed2 |-> AllReleased,
     semitone |-> NotDrawn, freq |-> NotDrawn, volume |-> NotDrawn]

\* the binary string of renderDetailedInfo: character n shows bit 7 - n
BinaryString(raw) ==
    [n \in 1 .. 8 |-> IF BitAnd(raw, Pow2Int(8 - n)) # 0 THEN "1" ELSE "0"]

\* initSDL succeeds or fails; on failure main shows a message box and returns 1
InitSDL(ok) ==
    /\ pcMain = "init"
    /\ IF ok
       THEN /\ pcMain' = IF build = 2 THEN "open_audio" ELSE "poll"
            /\ UNCHANGED <<messages, exitCode>>
       ELSE /\ pcMain' = "done"
            /\ messages' = messages + 1
            /\ exitCode' = 1
    /\ UNCHANGED <<build, running, e, keyState1, keyState2, controller1Keys,
                   controller2Keys, value1, value2, shown, lastPress, audioOpen>>
    /\ UNCHANGED audioVars

\* the failure of SDL_OpenAudioDevice reported, but main goes on
OpenAudioIgnoresFailure(ok) ==
    /\ pcMain = "open_audio"
    /\ pcMain' = "poll"
    /\ audioOpen' = ok
    /\ messages' = IF ok THEN messages ELSE messages + 1
    /\ UNCHANGED <<build, running, e, keyState1, keyState2, controller1Keys,
                   controller2Keys, value1, value2, shown, exitCode, lastPress>>
    /\ UNCHANGED audioVars

\* SDL_OpenAudioDevice and SDL_PauseAudioDevice of build 2
OpenAudio(ok) ==
    /\ pcMain = "open_audio"
    /\ IF ok
       THEN /\ pcMain' = "poll"
            /\ audioOpen' = TRUE
            /\ UNCHANGED <<messages, exitCode>>
       ELSE /\ pcMain' = "done"
            /\ messages' = messages + 1
            /\ exitCode' = 1
            /\ UNCHANGED audioOpen
    /\ UNCHANGED <<build, running, e, keyState1, keyState2, controller1Keys,
                   controller2Keys, value1, value2, shown, lastPress>>
    /\ UNCHANGED audioVars

\* handleEvents: SDL_PollEvent returned the event ev
HandleEvent(ev) ==
    /\ pcMain = "poll"
    /\ e' = ev
    /\ IF ev.type = "SDL_QUIT"
       THEN /\ running' = FALSE
            /\ UNCHANGED <<keyState1, keyState2, lastPress>>
       ELSE IF ev.type \in {"SDL_KEYDOWN", "SDL_KEYUP"}
       THEN LET pressed == (ev.type = "SDL_KEYDOWN")
                ks == setKeyState(ev.sym, pressed)
            IN  /\ keyState1' = ks.k1
                /\ keyState2' = ks.k2
                /\ lastPress' = [lastPress EXCEPT ![ev.sym] = pressed]
                /\ running' = IF ev.sym = "SDL_ESCAPE" THEN FALSE ELSE running
       ELSE UNCHANGED <<running, keyState1, keyState2, lastPress>>
    /\ UNCHANGED <<build, pcMain, controller1Keys, controller2Keys, value1,
                   value2, shown, messages, exitCode, audioOpen>>
    /\ UNCHANGED audioVars

\* handleEvents: SDL_PollEvent returned 0, the loop of handleEvents ends
HandleEventsDone ==
    /\ pcMain = "poll"
    /\ pcMain' = "encode"
    /\ UNCHANGED <<build, running, e, keyState1, keyState2, controller1Keys,
                   controller2Keys, value1, value2, shown, messages, exitCode,
                   lastPress, audioOpen>>
    /\ UNCHANGED audioVars

\* the second call made with controller 1's key state
EncodeController1Twice ==
    /\ pcMain = "encode"
    /\ value1' = getControllerState(keyState1, controller1Keys)
    /\ value2' = getControllerState(keyState1, controller2Keys)
    /\ pcMain' = "render"
    /\ UNCHANGED <<build, running, e, keyState1, keyState2, controller1Keys,
                   controller2Keys, shown, messages, exitCode, lastPress,
                   audioOpen>>
    /\ UNCHANGED audioVars

\* value1 = getControllerState(...); value2 = getControllerState(...)
Encode ==
    /\ pcMain = "encode"
    /\ value1' = getControllerState(keyState1, controller1Keys)
    /\ value2' = getControllerState(keyState2, controller2Keys)
    /\ pcMain' = "render"
    /\ UNCHANGED <<build, running, e, keyState1, keyState2, controller1Keys,
                   controller2Keys, shown, messages, exitCode, lastPress,
                   audioOpen>>
    /\ UNCHANGED audioVars

\* the per-frame update of the sweep made in the frame loop as well
RenderPitchAdvancesStep ==
    /\ pcMain = "render_pitch"
    /\ shown' = [shown EXCEPT !.semitone = semitoneStep]
    /\ semitoneStep' = (semitoneStep + 1) % MAX_SEMITONE_STEPS
    /\ pcMain' = "render_volume"
    /\ UNCHANGED <<build, running, e, keyState1, keyState2, controller1Keys,
                   controller2Keys, value1, value2, messages, exitCode,
                   lastPress, audioOpen>>
    /\ UNCHANGED <<pcAudio, bufferLen, numSamples, i, frequency, phaseInc,
                   scaledAmplitude, sample, phase, waveTimer, volumeLevel, callbacks>>

\* renderDetailedInfo(renderer, font, value1, value2): the screen is cleared,
\* the registers and buttons are drawn; build 2 then reads semitoneStep for
\* currentFreq, build 1 presents the frame
Render ==
    /\ pcMain = "render"
    /\ shown' =
         [raw1 |-> value1, raw2 |-> value2,
          bin1 |-> BinaryString(value1), bin2 |-> BinaryString(value2),
          pressed1 |-> [n \in Idx |-> BitAnd(value1, controller1Keys[n].value) # 0],
          pressed2 |-> [n \in Idx |-> BitAnd(value2, controller2Keys[n].value) # 0],
          semitone |-> NotDrawn,
          freq |-> IF build = 2 THEN CalcFrequency(semitoneStep) ELSE NotDrawn,
          volume |-> NotDrawn]
    /\ pcMain' = IF build = 2 THEN "render_pitch" ELSE "delay"
    /\ UNCHANGED <<build, running, e, keyState1, keyState2, controller1Keys,
                   controller2Keys, value1, value2, messages, exitCode,
                   lastPress, audioOpen>>
    /\ UNCHANGED audioVars

\* renderDetailedInfo of build 2: semitoneStep is read again for pitchText
RenderPitch ==
    /\ pcMain = "render_pitch"
    /\ shown' = [shown EXCEPT !.semitone = semitoneStep]
    /\ pcMain' = "render_volume"
    /\ UNCHANGED <<build, running, e, keyState1, keyState2, controller1Keys,
                   controller2Keys, value1, value2, messages, exitCode,
                   lastPress, audioOpen>>
    /\ UNCHANGED audioVars

\* renderDetailedInfo of build 2: volumeLevel is read for volText, the texts
\* are drawn and the frame is presented
RenderVolume ==
    /\ pcMain = "render_volume"
    /\ shown' = [shown EXCEPT !.volume = volumeLevel]
    /\ pcMain' = "delay"
    /\ UNCHANGED <<build, running, e, keyState1, keyState2, controller1Keys,
                   controller2Keys, value1, value2, messages, exitCode,
                   lastPress, audioOpen>>
    /\ UNCHANGED audioVars

\* SDL_Delay, then the test of `while (running)`
Delay ==
    /\ pcMain = "delay"
    /\ pcMain' = IF running THEN "poll" ELSE "cleanup"
    /\ UNCHANGED <<build, running, e, keyState1, keyState2, controller1Keys,
                   controller2Keys, value1, value2, shown, messages, exitCode,
                   lastPress, audioOpen>>
    /\ UNCHANGED audioVars

\* the audio device left open at the end of main
CleanupLeavesAudioOpen ==
    /\ pcMain = "cleanup"
    /\ pcMain' = "closing"
    /\ UNCHANGED <<build, running, e, keyState1, keyState2, controller1Keys,
                   controller2Keys, value1, value2, shown, messages, exitCode,
                   lastPress, audioOpen>>
    /\ UNCHANGED audioVars

\* SDL_CloseAudioDevice (build 2) is called: no further callback is started
Cleanup ==
    /\ pcMain = "cleanup"
    /\ audioOpen' = FALSE
    /\ pcMain' = "closing"
    /\ UNCHANGED <<build, running, e, keyState1, keyState2, controller1Keys,
                   controller2Keys, value1, value2, shown, messages, exitCode,
                   lastPress>>
    /\ UNCHANGED audioVars

\* SDL_CloseAudioDevice returns once a running callback has returned; the
\* other cleanup calls, return 0
CleanupDone ==
    /\ pcMain = "closing"
    /\ pcAudio = "idle"
    /\ exitCode' = 0
    /\ pcMain' = "done"
    /\ UNCHANGED <<build, running, e, keyState1, keyState2, controller1Keys,
                   controller2Keys, value1, value2, shown, messages, lastPress,
                   audioOpen>>
    /\ UNCHANGED audioVars

(***************************************************************************)
(* Initial states                                                          *)
(***************************************************************************)
\* the volume counter started one step ahead of the pitch counter
AudioInitVolumeAhead ==
    /\ pcAudio = "idle"
    /\ numSamples = 0
    /\ i = 0
    /\ frequency = 0
    /\ phaseInc = 0
    /\ scaledAmplitude = 0
    /\ sample = 0
    /\ phase = 0
    /\ waveTimer = [hi |-> 0, lo |-> 0]
    /\ semitoneStep = 0
    /\ volumeLevel = 1
    /\ callbacks = 0

\* static double phase = 0.0; static Uint32 waveTimer = 0;
\* static int volumeLevel = 0; static int semitoneStep = 0
AudioInit ==
    /\ pcAudio = "idle"
    /\ numSamples = 0
    /\ i = 0
    /\ frequency = 0
    /\ phaseInc = 0
    /\ scaledAmplitude = 0
    /\ sample = 0
    /\ phase = 0
    /\ waveTimer = [hi |-> 0, lo |-> 0]
    /\ semitoneStep = 0
    /\ volumeLevel = 0
    /\ callbacks = 0

MainInit(b) ==
    /\ build = b
    /\ running = TRUE
    /\ e = NoEvent
    /\ controller1Keys = Controller1Table
    /\ controller2Keys = Controller2Table(b)
    /\ value1 = 0
    /\ value2 = 0
    /\ shown = NoDisplay
    /\ messages = 0
    /\ exitCode = -1

\* the program at the start of main()
Init ==
    /\ \E b \in {1, 2} : MainInit(b)
    /\ pcMain = "init"
    /\ keyState1 = AllReleased
    /\ keyState2 = AllReleased
    /\ lastPress = [k \in KeyCodes |-> FALSE]
    /\ audioOpen = FALSE
    /\ bufferLen = 2 * AudioSpecSamples
    /\ AudioInit

\* the main thread: initialisation, frame loop and cleanup
Next ==
    \/ \E ok \in BOOLEAN : InitSDL(ok)
    \/ \E ok \in BOOLEAN : OpenAudio(ok)
    \/ \E ev \in Events : HandleEvent(ev)
    \/ HandleEventsDone
    \/ Encode
    \/ Render
    \/ RenderPitch
    \/ RenderVolume
    \/ Delay
    \/ Cleanup
    \/ CleanupDone

Spec == Init /\ [][Next]_vars

(***************************************************************************)
(* The register computation on every pressed-button subset                 *)
(***************************************************************************)
\* the frame loop about to encode, with any key states the events can produce:
\* a key bound in both tables has the same state in both
InitReg ==
    /\ \E b \in {1, 2} : MainInit(b)
    /\ pcMain = "encode"
    /\ keyState1 \in [Idx -> BOOLEAN]
    /\ \E flip \in BOOLEAN :
         keyState2 = [n \in Idx |->
                        IF controller1Keys[n].key = controller2Keys[n].key
                        THEN keyState1[n] ELSE (keyState1[n] # flip)]
    /\ lastPress =
         [k \in KeyCodes |->
            \E n \in Idx : \/ controller1Keys[n].key = k /\ keyState1[n]
                           \/ controller2Keys[n].key = k /\ keyState2[n]]
    /\ audioOpen = (build = 2)
    /\ bufferLen = 2 * AudioSpecSamples
    /\ AudioInit

NextReg == Encode

SpecReg == InitReg /\ [][NextReg]_vars

(***************************************************************************)
(* squareWaveCallback: the audio context                                   *)
(***************************************************************************)
\* the buffer sizes, in bytes, the backend may have been opened with
BufferLens == {0, 2, 7, 200, 2 * AudioSpecSamples}

\* conversion to int16_t
ToInt16(x) == LET m == x % 65536 IN IF m >= 32768 THEN m - 65536 ELSE m

\* waveTimer += n on a uint32_t held as two 16-bit halves
AddU32(w, n) ==
    LET lo == w.lo + (n % 65536)
        hi == w.hi + (n \div 65536) + (lo \div 65536)
    IN  [hi |-> hi % 65536, lo |-> lo % 65536]

\* phaseInc = frequency / SAMPLE_RATE, in phase units
PhaseIncOf(freq) == freq * (PhaseOne \div (SAMPLE_RATE * FreqScale))

\* the wrap left out
WrapPhaseMissing(p) == p

\* if (phase >= 1.0) phase -= 1.0
WrapPhase(p) == IF p >= PhaseOne THEN p - PhaseOne ELSE p

\* the modulo taken over one step too few
NextSemitoneStepShort(step) == (step + 1) % (MAX_SEMITONE_STEPS - 1)

\* semitoneStep = (semitoneStep + 1) % MAX_SEMITONE_STEPS
NextSemitoneStep(step) == (step + 1) % MAX_SEMITONE_STEPS

\* the volume wrapped over the divisor of the ramp, MAX_SEMITONE_STEPS - 1
NextVolumeLevelShort(level) == (level + 1) % (MAX_SEMITONE_STEPS - 1)

\* the volume counted up without the modulo
NextVolumeLevelNoWrap(level) == level + 1

\* volumeLevel = (volumeLevel + 1) % MAX_SEMITONE_STEPS
NextVolumeLevel(level) == (level + 1) % MAX_SEMITONE_STEPS

\* the ramp divided by MAX_SEMITONE_STEPS instead of MAX_SEMITONE_STEPS - 1
ScaledAmplitudeFullRange(level) == ToInt16((AMPLITUDE * level) \div MAX_SEMITONE_STEPS)

\* (AMPLITUDE * volumeLevel) / (MAX_SEMITONE_STEPS - 1), stored in an int16_t
ScaledAmplitude(level) == ToInt16((AMPLITUDE * level) \div (MAX_SEMITONE_STEPS - 1))

\* the phase restarted at 0 on every buffer
CallbackEnterResetsPhase ==
    /\ audioOpen
    /\ pcAudio = "idle"
    /\ callbacks < MaxCallbacks
    /\ numSamples' = bufferLen \div 2
    /\ frequency' = CalcFrequency(semitoneStep)
    /\ phaseInc' = PhaseIncOf(CalcFrequency(semitoneStep))
    /\ scaledAmplitude' = ScaledAmplitude(volumeLevel)
    /\ i' = 0
    /\ phase' = 0
    /\ pcAudio' = "loop"
    /\ UNCHANGED <<bufferLen, sample, waveTimer, semitoneStep, volumeLevel, callbacks>>
    /\ UNCHANGED mainVars

\* entry of the callback up to the sample loop: the locals are computed
CallbackEnter ==
    /\ audioOpen
    /\ pcAudio = "idle"
    /\ callbacks < MaxCallbacks
    /\ numSamples' = bufferLen \div 2
    /\ frequency' = CalcFrequency(semitoneStep)
    /\ phaseInc' = PhaseIncOf(CalcFrequency(semitoneStep))
    /\ scaledAmplitude' = ScaledAmplitude(volumeLevel)
    /\ i' = 0
    /\ pcAudio' = "loop"
    /\ UNCHANGED <<bufferLen, sample, phase, waveTimer, semitoneStep, volumeLevel,
                   callbacks>>
    /\ UNCHANGED mainVars

\* the sample written after the phase was advanced, before the wrap
GenSampleEmitAfter ==
    /\ pcAudio = "loop"
    /\ i < numSamples
    /\ sample' = IF 2 * (phase + phaseInc) < PhaseOne
                 THEN scaledAmplitude ELSE ToInt16(-scaledAmplitude)
    /\ phase' = WrapPhase(phase + phaseInc)
    /\ i' = i + 1
    /\ UNCHANGED <<pcAudio, bufferLen, numSamples, frequency, phaseInc,
                   scaledAmplitude, waveTimer, semitoneStep, volumeLevel, callbacks>>
    /\ UNCHANGED mainVars

\* one pass of the sample loop: write buffer[i], advance and wrap the phase
GenSample ==
    /\ pcAudio = "loop"
    /\ i < numSamples
    /\ sample' = IF 2 * phase < PhaseOne
                 THEN scaledAmplitude ELSE ToInt16(-scaledAmplitude)
    /\ phase' = WrapPhase(phase + phaseInc)
    /\ i' = i + 1
    /\ UNCHANGED <<pcAudio, bufferLen, numSamples, frequency, phaseInc,
                   scaledAmplitude, waveTimer, semitoneStep, volumeLevel, callbacks>>
    /\ UNCHANGED mainVars

\* the loop ends: waveTimer += numSamples
LoopEnd ==
    /\ pcAudio = "loop"
    /\ i >= numSamples
    /\ waveTimer' = AddU32(waveTimer, numSamples)
    /\ pcAudio' = "step_pitch"
    /\ UNCHANGED <<bufferLen, numSamples, i, frequency, phaseInc, scaledAmplitude,
                   sample, phase, semitoneStep, volumeLevel, callbacks>>
    /\ UNCHANGED mainVars

StepPitch ==
    /\ pcAudio = "step_pitch"
    /\ semitoneStep' = NextSemitoneStep(semitoneStep)
    /\ pcAudio' = "step_volume"
    /\ UNCHANGED <<bufferLen, numSamples, i, frequency, phaseInc, scaledAmplitude,
                   sample, phase, waveTimer, volumeLevel, callbacks>>
    /\ UNCHANGED mainVars

\* the last statement of the callback, and its return
StepVolume ==
    /\ pcAudio = "step_volume"
    /\ volumeLevel' = NextVolumeLevel(volumeLevel)
    /\ pcAudio' = "idle"
    /\ callbacks' = callbacks + 1
    /\ UNCHANGED <<bufferLen, numSamples, i, frequency, phaseInc, scaledAmplitude,
                   sample, phase, waveTimer, semitoneStep>>
    /\ UNCHANGED mainVars

\* build 2 in its frame loop with the audio device playing; the backend asks
\* for the same number of bytes on every callback
InitSynth ==
    /\ MainInit(2)
    /\ pcMain = "poll"
    /\ keyState1 = AllReleased
    /\ keyState2 = AllReleased
    /\ lastPress = [k \in KeyCodes |-> FALSE]
    /\ audioOpen = TRUE
    /\ bufferLen \in BufferLens
    /\ AudioInit

\* the audio context alone
NextSynth ==
    \/ CallbackEnter
    \/ GenSample
    \/ LoopEnd
    \/ StepPitch
    \/ StepVolume

SpecSynth == InitSynth /\ [][NextSynth]_vars

(***************************************************************************)
(* Both contexts: the main thread and the audio callback interleaved       *)
(***************************************************************************)
MaxRaceCallbacks == 3

\* the events the event source of SpecRace delivers
RaceEvents ==
    { [type |-> "SDL_QUIT", sym |-> "NONE"],
      [type |-> "SDL_KEYDOWN", sym |-> "SDLK_ESCAPE"],
      [type |-> "SDL_KEYDOWN", sym |-> "SDLK_LALT"] }

\* the program at the start of main(); the backend will ask for one sample
\* per callback
InitRace ==
    /\ \E b \in {1, 2} : MainInit(b)
    /\ pcMain = "init"
    /\ keyState1 = AllReleased
    /\ keyState2 = AllReleased
    /\ lastPress = [k \in KeyCodes |-> FALSE]
    /\ audioOpen = FALSE
    /\ bufferLen = 2
    /\ AudioInit

\* a step of the main thread
MainStep ==
    \/ \E ok \in BOOLEAN : InitSDL(ok)
    \/ \E ok \in BOOLEAN : OpenAudio(ok)
    \/ \E ev \in RaceEvents : HandleEvent(ev)
    \/ HandleEventsDone
    \/ Encode
    \/ Render
    \/ RenderPitch
    \/ RenderVolume
    \/ Delay
    \/ Cleanup
    \/ CleanupDone

\* a step of the audio context
AudioStep ==
    \/ (callbacks < MaxRaceCallbacks /\ CallbackEnter)
    \/ GenSample
    \/ LoopEnd
    \/ StepPitch
    \/ StepVolume

NextRace == MainStep \/ AudioStep

SpecRace == InitRace /\ [][NextRace]_vars

\* the steps of the main thread that do not wait for input: once the event
\* queue is empty the frame goes on, and SDL_Delay returns
MainProgress ==
    \/ HandleEventsDone
    \/ Encode
    \/ Render
    \/ RenderPitch
    \/ RenderVolume
    \/ Delay
    \/ Cleanup
    \/ CleanupDone

\* a callback that has been entered runs to its return
AudioProgress ==
    \/ GenSample
    \/ LoopEnd
    \/ StepPitch
    \/ StepVolume

SpecRaceFair == SpecRace /\ WF_vars(MainProgress) /\ WF_vars(AudioProgress)

(***************************************************************************)
(* Properties of the input state encoder                                   *)
(***************************************************************************)
RECURSIVE SumOf(_)
SumOf(S) == IF S = {} THEN 0 ELSE LET x == CHOOSE y \in S : TRUE IN x + SumOf(S \ {x})

\* the bits set in the flag value of at least one pressed button
PressedBits(keyState, keyMap) ==
    {b \in 0 .. 7 : \E n \in Idx : keyState[n] /\ (keyMap[n].value \div Pow2Int(b)) % 2 = 1}

\* the bitwise OR of the flag values of the pressed buttons, bit by bit
OrOfPressed(keyState, keyMap) == SumOf({Pow2Int(b) : b \in PressedBits(keyState, keyMap)})

\* other orders in which the bindings can be visited
VisitOrders ==
    { <<7, 6, 5, 4, 3, 2, 1, 0>>, <<1, 3, 5, 7, 0, 2, 4, 6>>,
      <<3, 4, 5, 6, 7, 0, 1, 2>>, <<4, 0, 7, 2, 5, 1, 6, 3>> }

AllPressed == [n \in Idx |-> TRUE]

RegisterOk(value, keyState, keyMap) ==
    /\ value = OrOfPressed(keyState, keyMap)
    /\ \A order \in VisitOrders :
         GetControllerStateLoop(keyState, keyMap, order, 1, 0) = value
    /\ (keyState = AllReleased => value = 0)
    /\ (keyState = AllPressed => value = 255)

\* C1: for every subset of pressed buttons the register computed by
\* getControllerState is the bitwise OR of exactly the pressed buttons' flag
\* values, whatever the order of the bindings; no button gives 0, all give 255.
C1_RegisterIsOrOfPressed ==
    pcMain = "render" =>
        /\ RegisterOk(value1, keyState1, controller1Keys)
        /\ RegisterOk(value2, keyState2, controller2Keys)

C1_Witness ==
    /\ pcMain = "render"
    /\ keyState1 = AllPressed /\ value1 = 255
    /\ keyState2 = AllReleased /\ value2 = 0

\* the register a controller's key state projects to
Register1 == getControllerState(keyState1, controller1Keys)
Register2 == getControllerState(keyState2, controller2Keys)

\* the buttons of a table whose key's most recent transition was a press
LastPressed(keyMap) == [n \in Idx |-> lastPress[keyMap[n].key]]

LastPressedKeys(keyMap) == {keyMap[n].key : n \in {m \in Idx : lastPress[keyMap[m].key]}}

\* C2: after any sequence of key transitions from the all-released state each
\* register is the OR of the flags of the bound keys last pressed; Up and A of
\* controller 1 give 17, A alone gives 1.
C2_RegisterFollowsLastTransition ==
    /\ Register1 = OrOfPressed(LastPressed(controller1Keys), controller1Keys)
    /\ Register2 = OrOfPressed(LastPressed(controller2Keys), controller2Keys)
    /\ (LastPressedKeys(controller1Keys) = {"SDLK_UP", "SDLK_LALT"} => Register1 = 17)
    /\ (LastPressedKeys(controller1Keys) = {"SDLK_LALT"} => Register1 = 1)

\* Up and A were shown pressed (17) in the last frame, and Up has been released
C2_Witness ==
    /\ shown.raw1 = 17
    /\ e = [type |-> "SDL_KEYUP", sym |-> "SDLK_UP"]
    /\ LastPressedKeys(controller1Keys) = {"SDLK_LALT"}
    /\ Register1 = 1

BoundIn(keyMap, code) == \E n \in Idx : keyMap[n].key = code

\* the step from the unprimed to the primed state handled a key event
KeyEventStep ==
    /\ pcMain = "poll"
    /\ pcMain' = "poll"
    /\ e'.type \in {"SDL_KEYDOWN", "SDL_KEYUP"}

\* C3: a transition of a key bound only in controller 1's table leaves
\* controller 2's key state and register unchanged, and symmetrically.
C3_ControllersIndependent ==
    [][KeyEventStep =>
        /\ (BoundIn(controller1Keys, e'.sym) /\ ~BoundIn(controller2Keys, e'.sym)
              => /\ keyState2' = keyState2
                 /\ Register2' = Register2)
        /\ (BoundIn(controller2Keys, e'.sym) /\ ~BoundIn(controller1Keys, e'.sym)
              => /\ keyState1' = keyState1
                 /\ Register1' = Register1)]_vars

\* A of controller 1 was released while A of controller 2 stays pressed
C3_Witness ==
    /\ pcMain = "poll"
    /\ e = [type |-> "SDL_KEYUP", sym |-> "SDLK_LALT"]
    /\ ~keyState1[0]
    /\ keyState2[0]
    /\ Register2 = 1

\* C4: the two tables bind 16 distinct keys in total and Escape is none of them.
C4_SixteenDistinctKeys ==
    LET keys == {controller1Keys[n].key : n \in Idx} \cup {controller2Keys[n].key : n \in Idx}
    IN  /\ Cardinality(keys) = 2 * NUM_KEYS
        /\ "SDLK_ESCAPE" \notin keys

\* C5: a key transition sets to `pressed` the entry of every binding, in both
\* tables, whose key is the event's key, and no other entry; a key bound in
\* both tables updates both key states in the same transition.
C5_EveryMatchingEntryUpdated ==
    [][KeyEventStep =>
        LET pressed == (e'.type = "SDL_KEYDOWN") IN
        \A n \in Idx :
            /\ keyState1'[n] = IF controller1Keys[n].key = e'.sym
                               THEN pressed ELSE keyState1[n]
            /\ keyState2'[n] = IF controller2Keys[n].key = e'.sym
                               THEN pressed ELSE keyState2[n]]_vars

\* key 5 is Select in both tables of build 1: one press set both entries
C5_Witness ==
    /\ build = 1
    /\ e = [type |-> "SDL_KEYDOWN", sym |-> "SDLK_5"]
    /\ BoundIn(controller1Keys, e.sym) /\ BoundIn(controller2Keys, e.sym)
    /\ keyState1[2] /\ keyState2[2]
    /\ Register1 = 4 /\ Register2 = 4

\* C6: a transition of a key bound in neither table, the quit key included,
\* changes no key state and no register and enters no error state.
C6_UnboundKeyIgnored ==
    [][(KeyEventStep /\ ~BoundIn(controller1Keys, e'.sym)
                     /\ ~BoundIn(controller2Keys, e'.sym)) =>
        /\ keyState1' = keyState1 /\ keyState2' = keyState2
        /\ Register1' = Register1 /\ Register2' = Register2
        /\ messages' = messages /\ exitCode' = exitCode]_vars

\* Escape was pressed while A of controller 1 is held
C6_Witness ==
    /\ pcMain = "poll"
    /\ e = [type |-> "SDL_KEYDOWN", sym |-> "SDLK_ESCAPE"]
    /\ ~BoundIn(controller1Keys, e.sym) /\ ~BoundIn(controller2Keys, e.sym)
    /\ keyState1[0]
    /\ Register1 = 1
    /\ ~running
    /\ exitCode = -1

ButtonLabels == <<"A", "B", "Select", "Start", "Up", "Down", "Left", "Right">>

FlagsInOrder(keyMap) ==
    /\ \A n \in Idx : keyMap[n].value = Pow2Int(n) /\ keyMap[n].label = ButtonLabels[n + 1]
    /\ \A v \in {1, 2, 4, 8, 16, 32, 64, 128} :
         Cardinality({n \in Idx : keyMap[n].value = v}) = 1

\* C7: in each table the flag values are 1,2,4,...,128, each exactly once, in
\* the order A, B, Select, Start, Up, Down, Left, Right, and no step of the
\* program changes a table.
C7_FlagsFixedPowersOfTwo ==
    /\ [](FlagsInOrder(controller1Keys) /\ FlagsInOrder(controller2Keys))
    /\ [][controller1Keys' = controller1Keys /\ controller2Keys' = controller2Keys]_vars

\* the program has run to its end with key transitions recorded
C7_Witness ==
    /\ pcMain = "done"
    /\ exitCode = 0
    /\ keyState1[4] /\ keyState2[0]
    /\ FlagsInOrder(controller1Keys) /\ FlagsInOrder(controller2Keys)

(***************************************************************************)
(* Properties of the square-wave synthesizer                               *)
(***************************************************************************)
\* C8: after every generated sample, in any callback, the phase is in [0,1);
\* the increment of every pitch step 0..15 is positive and below 1.0.
C8_PhaseInUnitInterval ==
    /\ 0 <= phase /\ phase < PhaseOne
    /\ (pcAudio # "idle" => 0 < phaseInc /\ phaseInc < PhaseOne)
    /\ \A step \in 0 .. (MAX_SEMITONE_STEPS - 1) :
         PhaseIncOf(CalcFrequency(step)) < PhaseOne

\* the sample just generated wrapped the phase, in a later callback
C8_Witness ==
    /\ pcAudio = "loop"
    /\ callbacks >= 2
    /\ i > 0
    /\ phase < phaseInc

\* C9: every callback invocation, whatever its sample count, advances pitch
\* step and volume step by one modulo 16; both stay in 0..15 and are back at
\* 0 after 16 invocations.
C9_StepsAdvanceModuloN ==
    /\ semitoneStep \in 0 .. (MAX_SEMITONE_STEPS - 1)
    /\ volumeLevel \in 0 .. (MAX_SEMITONE_STEPS - 1)
    /\ (pcAudio \in {"idle", "loop", "step_pitch"}
          => semitoneStep = callbacks % MAX_SEMITONE_STEPS)
    /\ (pcAudio = "step_volume"
          => semitoneStep = (callbacks + 1) % MAX_SEMITONE_STEPS)
    /\ volumeLevel = callbacks % MAX_SEMITONE_STEPS

\* the sixteenth invocation, of three samples, has returned
C9_Witness ==
    /\ pcAudio = "idle"
    /\ callbacks = MAX_SEMITONE_STEPS
    /\ numSamples = 3
    /\ semitoneStep = 0
    /\ volumeLevel = 0

\* C10: the frequency of a buffer is BASE_FREQUENCY * 2^(step/12) for the
\* pitch step at callback entry: 440 at step 0, 880 at step 12, and one
\* semitone (a factor between 1.059 and 1.060) above the step before.
C10_FrequencyLadder ==
    pcAudio \in {"loop", "step_pitch"} =>
        /\ (semitoneStep = 0 => frequency = BASE_FREQUENCY * FreqScale)
        /\ (semitoneStep = 12 => frequency = 2 * BASE_FREQUENCY * FreqScale)
        /\ (semitoneStep > 0 =>
              /\ 1000 * frequency >= 1059 * CalcFrequency(semitoneStep - 1)
              /\ 1000 * frequency <= 1060 * CalcFrequency(semitoneStep - 1))

\* the sweep is at step 12 and generates samples at 880 Hz
C10_Witness ==
    /\ pcAudio = "loop"
    /\ semitoneStep = 12
    /\ i > 0
    /\ frequency = 880 * FreqScale

Abs(x) == IF x < 0 THEN -x ELSE x

\* the callback is between its entry and the update of volumeLevel
InCallback == pcAudio \in {"loop", "step_pitch", "step_volume"}

\* C11: every sample written in one callback has magnitude
\* AMPLITUDE * volumeLevel / (MAX_SEMITONE_STEPS - 1), integer division, for
\* the volume step at callback entry: 0 at step 0, AMPLITUDE at step 15, the
\* same for all samples of the buffer.
C11_SampleMagnitudeIsRamp ==
    InCallback =>
        /\ scaledAmplitude = (AMPLITUDE * volumeLevel) \div (MAX_SEMITONE_STEPS - 1)
        /\ (i > 0 => Abs(sample) = (AMPLITUDE * volumeLevel) \div (MAX_SEMITONE_STEPS - 1))
        /\ (volumeLevel = 0 => scaledAmplitude = 0)
        /\ (volumeLevel = MAX_SEMITONE_STEPS - 1 => scaledAmplitude = AMPLITUDE)

\* late in a 2048-sample buffer at volume step 7 a sample of magnitude 13066
C11_Witness ==
    /\ pcAudio = "loop"
    /\ volumeLevel = 7
    /\ i > 1000
    /\ Abs(sample) = 13066

\* a step of the sample loop
SampleStep == pcAudio = "loop" /\ i' = i + 1

\* C13 as stated: the sign of each sample is decided by the phase after that
\* sample's increment has been added (and before the wrap).
C13_SignFromAccumulatedPhase ==
    [][SampleStep =>
        sample' = IF 2 * (phase + phaseInc) < PhaseOne
                  THEN scaledAmplitude ELSE -scaledAmplitude]_vars

\* C13 amended: each sample is +amplitude if the phase before that sample's
\* increment is below 0.5 and -amplitude otherwise; the phase is accumulated
\* and wrapped after the sample is written.
C13_SignFromPhaseBeforeIncrement ==
    [][SampleStep =>
        /\ sample' = IF 2 * phase < PhaseOne THEN scaledAmplitude ELSE -scaledAmplitude
        /\ phase' = IF phase + phaseInc >= PhaseOne
                    THEN phase + phaseInc - PhaseOne ELSE phase + phaseInc]_vars

\* a positive sample was written although the phase, with the increment added
\* and no wrap taken, is at or above 0.5
C13_Witness ==
    /\ pcAudio = "loop"
    /\ i > 0
    /\ sample > 0
    /\ phase >= phaseInc
    /\ 2 * phase >= PhaseOne
    /\ 2 * (phase - phaseInc) < PhaseOne

\* C14: at every callback boundary the pitch step equals the volume step.
C14_StepsInLockstep ==
    pcAudio = "idle" => semitoneStep = volumeLevel

\* seven callbacks have returned
C14_Witness ==
    /\ pcAudio = "idle"
    /\ callbacks = 7
    /\ semitoneStep = 7
    /\ volumeLevel = 7

\* C17: phase, pitch step and volume step start at zero; the phase changes
\* only in a step of the sample loop, once per sample, by the increment modulo
\* 1.0, so a callback starts with the phase the previous one left.
C17_PhaseCarriedAcrossBuffers ==
    /\ (phase = 0 /\ semitoneStep = 0 /\ volumeLevel = 0)
    /\ [][phase' # phase =>
            /\ SampleStep
            /\ phase' = (phase + phaseInc) % PhaseOne]_vars
    /\ [][pcAudio' # pcAudio => phase' = phase]_vars

\* a later callback has been entered with the phase the previous one left
C17_Witness ==
    /\ pcAudio = "loop"
    /\ i = 0
    /\ numSamples > 0
    /\ callbacks >= 1
    /\ phase > 0

\* 2^31 - 1, the largest int, written without exceeding it
IntMax == (2^30 - 1) * 2 + 1

\* C20: for every volume step reached, AMPLITUDE * volumeLevel fits in an int,
\* the scaled amplitude and its negation lie in [-28000, 28000] and are not
\* changed by the conversion to int16_t, and every sample is one of the two.
C20_AmplitudeFitsInt16 ==
    /\ volumeLevel \in 0 .. (MAX_SEMITONE_STEPS - 1)
    /\ AMPLITUDE <= IntMax \div (MAX_SEMITONE_STEPS - 1)
    /\ LET raw == (AMPLITUDE * volumeLevel) \div (MAX_SEMITONE_STEPS - 1)
       IN  /\ 0 <= raw /\ raw <= AMPLITUDE
           /\ ToInt16(raw) = raw
           /\ ToInt16(-raw) = -raw
           /\ (InCallback => scaledAmplitude = raw)
    /\ 0 <= scaledAmplitude /\ scaledAmplitude <= AMPLITUDE
    /\ -AMPLITUDE <= sample /\ sample <= AMPLITUDE
    /\ (InCallback /\ i > 0 => sample \in {scaledAmplitude, -scaledAmplitude})

\* the loudest buffer: a sample of -28000 at volume step 15
C20_Witness ==
    /\ pcAudio = "loop"
    /\ volumeLevel = MAX_SEMITONE_STEPS - 1
    /\ scaledAmplitude = AMPLITUDE
    /\ sample = -AMPLITUDE

(***************************************************************************)
(* Properties of the frame loop and of the two contexts together           *)
(***************************************************************************)
SynthesisState == <<phase, semitoneStep, volumeLevel, waveTimer>>

C15_SynthesisStateOwnedByAudio ==
    [][mainVars' # mainVars =>
        /\ phase' = phase
        /\ semitoneStep' = semitoneStep
        /\ volumeLevel' = volumeLevel]_vars

\* the display read the pitch step while a callback was between its two updates
C15_Witness ==
    /\ pcMain = "render_volume"
    /\ pcAudio = "step_volume"
    /\ shown.semitone = semitoneStep
    /\ semitoneStep = volumeLevel + 1
    /\ keyState1[0]

\* C16: the pitch step and the volume step shown in one frame differ by at
\* most 1 modulo MAX_SEMITONE_STEPS.
C16_DisplayTornByAtMostOne ==
    (build = 2 /\ pcMain = "delay") =>
        (shown.volume - shown.semitone) % MAX_SEMITONE_STEPS
            \in {0, 1, MAX_SEMITONE_STEPS - 1}

FrameOrder ==
    [ poll |-> {"encode"}, encode |-> {"render"},
      render |-> {"render_pitch", "delay"}, render_pitch |-> {"render_volume"},
      render_volume |-> {"delay"}, delay |-> {"poll", "cleanup"} ]

\* C18: in a frame polling, encoding and display follow one another in that
\* order; key states change only while polling; the registers encoded, and
\* then drawn, in a frame are the OR-projection of the key states as the
\* polling of that frame left them.
C18_FrameStepsInSequence ==
    /\ [][(pcMain' # pcMain /\ pcMain \in DOMAIN FrameOrder) =>
            pcMain' \in FrameOrder[pcMain]]_vars
    /\ [][(keyState1' # keyState1 \/ keyState2' # keyState2) =>
            (pcMain = "poll" /\ pcMain' = "poll")]_vars
    /\ [](pcMain = "render" =>
            /\ value1 = OrOfPressed(keyState1, controller1Keys)
            /\ value2 = OrOfPressed(keyState2, controller2Keys))
    /\ [](pcMain \in {"render_pitch", "render_volume", "delay"} =>
            /\ shown.raw1 = OrOfPressed(keyState1, controller1Keys)
            /\ shown.raw2 = OrOfPressed(keyState2, controller2Keys)
            /\ shown.raw1 = value1 /\ shown.raw2 = value2)

\* a frame drew Up and A of controller 1 and A of controller 2
C18_Witness ==
    /\ pcMain = "delay"
    /\ keyState1[0] /\ keyState1[4]
    /\ keyState2[0]
    /\ shown.raw1 = 17
    /\ shown.raw2 = 1

\* C19: when initSDL or the opening of the audio device fails, one message is
\* shown and main returns 1; no frame was run, no key transition recorded, no
\* callback run, and the synthesis state is as at startup.
C19_InitFailureEndsProgram ==
    (messages >= 1 \/ exitCode = 1) =>
        /\ messages = 1
        /\ exitCode = 1
        /\ pcMain = "done"
        /\ running
        /\ e = NoEvent
        /\ shown = NoDisplay
        /\ keyState1 = AllReleased /\ keyState2 = AllReleased
        /\ \A k \in KeyCodes : ~lastPress[k]
        /\ ~audioOpen
        /\ pcAudio = "idle" /\ callbacks = 0
        /\ phase = 0 /\ semitoneStep = 0 /\ volumeLevel = 0
        /\ waveTimer = [hi |-> 0, lo |-> 0]

\* build 2 has ended with a failure
C19_Witness ==
    /\ build = 2
    /\ messages = 1
    /\ exitCode = 1
    /\ pcMain = "done"

\* the callback is filling its buffer: the pitch step is still the one the
\* frequency of this buffer was computed from
FillingBuffer == pcAudio = "loop"

\* C21: a buffer generated at pitch step 0 has the frequency BASE_FREQUENCY,
\* the amplitude scale 0 and only zero samples; this is the first buffer and
\* every MAX_SEMITONE_STEPS-th one after it; a buffer with a non-zero sample
\* has a pitch step of at least 1, and the scale and the samples reach
\* AMPLITUDE only at pitch step MAX_SEMITONE_STEPS - 1.
C21_SilentAtBaseFrequency ==
    FillingBuffer =>
        /\ (semitoneStep = 0 <=> callbacks % MAX_SEMITONE_STEPS = 0)
        /\ (semitoneStep = 0 =>
                /\ frequency = BASE_FREQUENCY * FreqScale
                /\ scaledAmplitude = 0
                /\ (i > 0 => sample = 0))
        /\ (i > 0 /\ sample # 0 => semitoneStep >= 1)
        /\ (semitoneStep >= 1 => scaledAmplitude > 0)
        /\ (scaledAmplitude = AMPLITUDE <=> semitoneStep = MAX_SEMITONE_STEPS - 1)
        /\ (i > 0 /\ Abs(sample) = AMPLITUDE => semitoneStep = MAX_SEMITONE_STEPS - 1)

\* the seventeenth buffer, again at pitch step 0, with zero samples written
\* after the sixteenth buffer was written at full amplitude
C21_Witness ==
    /\ FillingBuffer
    /\ callbacks = MAX_SEMITONE_STEPS
    /\ semitoneStep = 0
    /\ numSamples > 1
    /\ i = numSamples
    /\ sample = 0
    /\ scaledAmplitude = 0
    /\ phase > 0

====
